---- MODULE Spec2Model ----
(***************************************************************************)
(* Reading-position and navigation synchronisation of the docs site:       *)
(* the SideNav drawer (components/link.tsx, lines 69-264) and the ArticleToc *)
(* outline (components/article-toc.tsx), as Preact function components.     *)
(*                                                                         *)
(* Strings are sequences of one-character strings, so that the string      *)
(* functions of the source (replace, toLowerCase, charAt, parseInt) are    *)
(* computed and not assumed.  An optional value (string | undefined, or a  *)
(* DOM lookup that may return null) is a sequence of length 0 or 1.         *)
(*                                                                         *)
(* Hooks: a useState setter writes the hook's value at once and marks the  *)
(* component dirty; the re-render runs in a microtask, i.e. before any     *)
(* other event.  A render first runs the effects the previous render left  *)
(* pending (with that render's closures), then commits the values the      *)
(* handlers read through their closures (viewOpen, viewPath).  Effects not *)
(* flushed by a render are flushed after paint, as a step of their own.    *)
(***************************************************************************)
EXTENDS Integers, Sequences, FiniteSets, TLC

VARIABLES
    \* ---- browsing context
    viewportWidth,   \* width of the window in px
    location,        \* location.pathname
    dom,             \* the article containers of the document, in document order
    hash,            \* location.hash
    historyLen,      \* number of entries of the session history
    pageScroll,      \* target of the last scrollIntoView request, optional
    \* ---- SideNav
    items,           \* the items prop
    navPhase,        \* "mounted" | "unmounted"
    isOpen,          \* hook value of useState(false)
    currentPath,     \* hook value of useState<string>(), optional
    viewOpen,        \* isOpen of the latest committed render (closure value)
    viewPath,        \* currentPath of the latest committed render
    navDirty,        \* a re-render is queued
    navEffects,      \* effects the latest render left pending
    mqListener,      \* handleChange is registered on the media query
    keyListeners,    \* registered handleKeyDown closures: the isOpen each one tests
    rafQueue,        \* requestAnimationFrame callbacks queued: the currentPath each closes over
    asideScroll,     \* aside.scrollTo requests made so far
    navLast,         \* history of the latest SideNav event (for stating properties)
    \* ---- ArticleToc
    tocPhase,        \* "mounted" | "unmounted"
    articleId,       \* the articleId prop of the latest render
    tocItems,        \* hook value of useState<TocItem[]>([])
    activeId,        \* hook value of useState<string>("")
    tocEffect,       \* the build effect is pending
    observed,        \* heading elements the live IntersectionObserver observes
    warned,          \* article ids console.warn reported as not found
    tocLast,         \* history of the latest ArticleToc event (for stating properties)
    \* ---- application of a pure function
    fnPc,            \* "arg" | "once" | "twice"
    fnArg,           \* the argument drawn
    fnVal            \* the value after the applications so far

envVars == <<viewportWidth, location, dom, hash, historyLen, pageScroll>>
navVars == <<items, navPhase, isOpen, currentPath, viewOpen, viewPath, navDirty,
             navEffects, mqListener, keyListeners, rafQueue, asideScroll, navLast>>
tocVars == <<tocPhase, articleId, tocItems, activeId, tocEffect, observed, warned, tocLast>>
fnVars == <<fnPc, fnArg, fnVal>>
vars == <<envVars, navVars, tocVars, fnVars>>

-----------------------------------------------------------------------------
(* Optional values and strings *)

None == <<>>
Some(x) == <<x>>

EmptyStr == <<>>

RECURSIVE SeqsUpTo(_, _)
\* every sequence over alphabet of length at most n
SeqsUpTo(alphabet, n) ==
    IF n = 0 THEN {<<>>}
    ELSE LET shorter == SeqsUpTo(alphabet, n - 1)
         IN shorter \cup {Append(s, c) : s \in shorter, c \in alphabet}

UpperChars == <<"A", "B", "C", "D", "E", "F", "G", "H", "I", "J", "K", "L", "M",
                "N", "O", "P", "Q", "R", "S", "T", "U", "V", "W", "X", "Y", "Z">>
LowerChars == <<"a", "b", "c", "d", "e", "f", "g", "h", "i", "j", "k", "l", "m",
                "n", "o", "p", "q", "r", "s", "t", "u", "v", "w", "x", "y", "z">>
DigitChars == <<"0", "1", "2", "3", "4", "5", "6", "7", "8", "9">>

Range(s) == {s[i] : i \in 1..Len(s)}

\* \w of a JavaScript regular expression: [A-Za-z0-9_]
IsWordChar(c) == c \in Range(UpperChars) \cup Range(LowerChars) \cup Range(DigitChars) \cup {"_"}

\* \s of a JavaScript regular expression (the white space the model's texts use)
IsSpaceChar(c) == c \in {" ", "\t", "\n"}

-----------------------------------------------------------------------------
(* components/link.tsx: normalizePath *)

\* a replace(/\/$/, "") in place of replace(/\/+$/, ""): one slash goes, not the run
StripOneTrailingSlash(s) ==
    IF Len(s) > 0 /\ s[Len(s)] = "/" THEN SubSeq(s, 1, Len(s) - 1) ELSE s

RECURSIVE StripTrailingSlashes(_)
\* String.prototype.replace(/\/+$/, ""): the whole run of slashes at the end goes
StripTrailingSlashes(s) ==
    IF Len(s) > 0 /\ s[Len(s)] = "/"
    THEN StripTrailingSlashes(SubSeq(s, 1, Len(s) - 1))
    ELSE s

RootPath == <<"/">>

\* path === "/" ? "/" : path?.replace(/\/+$/, ""), of an optional path
normalizePath(path) ==
    IF path = None THEN None
    ELSE IF path[1] = RootPath THEN Some(RootPath)
    ELSE Some(StripTrailingSlashes(path[1]))

-----------------------------------------------------------------------------
(* components/link.tsx: the navigation entries and their rendering *)

\* "title" in entry && "items" in entry
isNavGroup(entry) == "title" \in DOMAIN entry /\ "items" \in DOMAIN entry

\* a startsWith test in place of the equality of isActive
isActivePrefix(path, href) ==
    /\ path # None
    /\ LET p == normalizePath(path)[1]
           h == normalizePath(Some(href))[1]
       IN Len(h) <= Len(p) /\ SubSeq(p, 1, Len(h)) = h

\* normalizePath(currentPath) === normalizePath(href), currentPath of the render
isActive(path, href) == normalizePath(path) = normalizePath(Some(href))

RECURSIVE GroupAnchors(_, _, _)
\* entry.items.map(...): the <a> of each item of a group, from item k on
GroupAnchors(group, k, path) ==
    IF k > Len(group) THEN <<>>
    ELSE <<[href |-> group[k].href, active |-> isActive(path, group[k].href),
            grouped |-> TRUE]>> \o GroupAnchors(group, k + 1, path)

RECURSIVE NavAnchors(_, _, _)
\* items.map(...): the <a> elements of the <aside>, in document order, from entry k on
NavAnchors(entries, k, path) ==
    IF k > Len(entries) THEN <<>>
    ELSE (IF isNavGroup(entries[k])
          THEN GroupAnchors(entries[k].items, 1, path)
          ELSE <<[href |-> entries[k].href, active |-> isActive(path, entries[k].href),
                  grouped |-> FALSE]>>)
         \o NavAnchors(entries, k + 1, path)

-----------------------------------------------------------------------------
(* components/article-toc.tsx: the outline of an article *)

HeadingTags == {<<"H", DigitChars[n + 1]>> : n \in 1..6}

\* the elements "h1, h2, h3, h4, h5, h6" selects
IsHeading(el) == el.tag \in HeadingTags

\* String.prototype.charAt, of a position the string has
CharAt(s, k) == s[k + 1]

\* parseInt of a one-digit string
ParseInt(c) == CHOOSE n \in 0..9 : DigitChars[n + 1] = c

\* toLowerCase of one character
LowerOf(c) ==
    IF c \in Range(UpperChars)
    THEN LowerChars[CHOOSE i \in 1..Len(UpperChars) : UpperChars[i] = c]
    ELSE c

RECURSIVE ToLowerCase(_)
ToLowerCase(s) ==
    IF s = <<>> THEN <<>> ELSE <<LowerOf(Head(s))>> \o ToLowerCase(Tail(s))

\* a replace(/[^\w\s]/g, "") in place of replace(/[^\w\s-]/g, ""): the hyphens go too
StripNonWord(s) == SelectSeq(s, LAMBDA c : IsWordChar(c) \/ IsSpaceChar(c))

\* replace(/[^\w\s-]/g, "")
StripNonSlug(s) == SelectSeq(s, LAMBDA c : IsWordChar(c) \/ IsSpaceChar(c) \/ c = "-")

RECURSIVE HyphenateSpaces(_, _)
\* replace(/\s+/g, "-"): each run of white space becomes one hyphen (inRun: the
\* character before s was white space)
HyphenateSpaces(s, inRun) ==
    IF s = <<>> THEN <<>>
    ELSE IF IsSpaceChar(Head(s))
         THEN (IF inRun THEN <<>> ELSE <<"-">>) \o HyphenateSpaces(Tail(s), TRUE)
         ELSE <<Head(s)>> \o HyphenateSpaces(Tail(s), FALSE)

\* textContent?.toLowerCase().replace(/[^\w\s-]/g, "").replace(/\s+/g, "-") || ""
Slugify(text) ==
    LET slug == HyphenateSpaces(StripNonSlug(ToLowerCase(text)), FALSE)
    IN IF slug = EmptyStr THEN EmptyStr ELSE slug

\* heading.id = "..." unconditionally, in place of the if (!heading.id) guard
AssignIdAlways(el) == [el EXCEPT !.id = Slugify(el.text)]

\* if (!heading.id) heading.id = ...
AssignId(el) == IF el.id = EmptyStr THEN [el EXCEPT !.id = Slugify(el.text)] ELSE el

\* { id: heading.id, text: heading.textContent || "", level: parseInt(tagName.charAt(1)) }
TocItemOf(el) ==
    [id |-> el.id, text |-> el.text, level |-> ParseInt(CharAt(el.tag, 1))]

RECURSIVE AssignIds(_)
\* the elements of a container after headings.forEach has assigned the missing ids
AssignIds(els) ==
    IF els = <<>> THEN <<>>
    ELSE <<IF IsHeading(Head(els)) THEN AssignId(Head(els)) ELSE Head(els)>>
         \o AssignIds(Tail(els))

RECURSIVE CollectItems(_)
\* items, as headings.forEach pushes them (els: the elements with their ids assigned)
CollectItems(els) ==
    IF els = <<>> THEN <<>>
    ELSE (IF IsHeading(Head(els)) THEN <<TocItemOf(Head(els))>> ELSE <<>>)
         \o CollectItems(Tail(els))

-----------------------------------------------------------------------------
(* The document: containers [id, els] in document order, each element         *)
(* [tag, text, id]; a reference [c, i] names element i of container c, and     *)
(* i = 0 the container element itself.                                       *)

RECURSIVE ContainerRefs(_, _, _)
ContainerRefs(d, c, i) ==
    IF i > Len(d[c].els) THEN <<>>
    ELSE <<[c |-> c, i |-> i]>> \o ContainerRefs(d, c, i + 1)

RECURSIVE DocumentRefs(_, _)
\* every element of the document that can carry an id, in document order
DocumentRefs(d, c) ==
    IF c > Len(d) THEN <<>>
    ELSE <<[c |-> c, i |-> 0]>> \o ContainerRefs(d, c, 1) \o DocumentRefs(d, c + 1)

ElementId(d, ref) == IF ref.i = 0 THEN d[ref.c].id ELSE d[ref.c].els[ref.i].id

\* document.getElementById: the first element in document order with that id
GetElementById(d, id) ==
    IF id = EmptyStr THEN None
    ELSE LET found == SelectSeq(DocumentRefs(d, 1), LAMBDA ref : ElementId(d, ref) = id)
         IN IF found = <<>> THEN None ELSE Some(found[1])

\* article.querySelectorAll("h1, h2, h3, h4, h5, h6"): the headings below article
QueryHeadings(d, article) ==
    IF article.i # 0 THEN <<>>
    ELSE SelectSeq(ContainerRefs(d, article.c, 1),
                   LAMBDA ref : IsHeading(d[ref.c].els[ref.i]))

-----------------------------------------------------------------------------
(* components/link.tsx: SideNav, its hooks and handlers *)

MinWidth == 1024

\* matchMedia("(min-width: 1024px)").matches at width w
Wide(w) == w >= MinWidth

\* setIsOpen(true) in place of setIsOpen(!isOpen)
toggleNavOpens(open) == TRUE

\* toggleNav: the value setIsOpen(!isOpen) writes, isOpen of the render's closure
toggleNav(open) == ~open

\* handleChange that keeps the state when the viewport becomes narrow
handleChangeWideOnly(matches, cur) == matches \/ cur

\* handleChange: the value setIsOpen(e.matches) writes
handleChange(matches, cur) == matches

\* handleKeyDown of one registered closure: the hook value after it ran
handleKeyDown(key, closureOpen, cur) ==
    IF key = "Escape" /\ closureOpen THEN FALSE ELSE cur

RECURSIVE DispatchKeyDown(_, _, _)
\* the keydown listeners of the window run in the order they were added
DispatchKeyDown(listeners, key, cur) ==
    IF listeners = <<>> THEN cur
    ELSE DispatchKeyDown(Tail(listeners), key, handleKeyDown(key, Head(listeners), cur))

\* a keydown effect returning no clean-up
KeyCleanupNone(listeners) == listeners

\* the clean-up of the keydown effect: removeEventListener of the closure its
\* previous run added (the one added last)
KeyCleanup(listeners) ==
    IF listeners = <<>> THEN listeners ELSE SubSeq(listeners, 1, Len(listeners) - 1)

\* the mount effect reading nothing: isOpen keeps its initial value
OpenAfterEffectsUnread(effs, cur, width) == cur

\* setIsOpen(mediaQuery.matches) of the mount effect
OpenAfterEffects(effs, cur, width) == IF "mount" \in effs THEN Wide(width) ELSE cur

\* setCurrentPath(globalThis.location.pathname) of the mount effect
PathAfterEffects(effs, cur, pathname) == IF "mount" \in effs THEN Some(pathname) ELSE cur

\* mediaQuery.addEventListener("change", handleChange) of the mount effect
MqAfterEffects(effs, registered) == registered \/ "mount" \in effs

\* the scroll effect: if (currentPath) requestAnimationFrame(...), currentPath of the closure
RafAfterEffects(effs, queue, closurePath) ==
    IF "scroll" \in effs /\ closurePath # None /\ closurePath[1] # EmptyStr
    THEN Append(queue, closurePath[1])
    ELSE queue

\* the keydown effect: clean-up of its previous run, then addEventListener of a
\* handleKeyDown closing over isOpen of the render that scheduled it
KeysAfterEffects(effs, listeners, closureOpen) ==
    IF "key" \in effs THEN Append(KeyCleanup(listeners), closureOpen) ELSE listeners

\* the scroll effect depending on [currentPath, isOpen]
EffectsOfRenderScrollOnOpen(oldOpen, oldPath, newOpen, newPath) ==
    (IF newPath # oldPath \/ newOpen # oldOpen THEN {"scroll"} ELSE {})
    \cup (IF newOpen # oldOpen THEN {"key"} ELSE {})

\* the mount effect written without its [] dependency array: every render
\* schedules it again
EffectsOfRenderRemount(oldOpen, oldPath, newOpen, newPath) ==
    {"mount"}
    \cup (IF newPath # oldPath THEN {"scroll"} ELSE {})
    \cup (IF newOpen # oldOpen THEN {"key"} ELSE {})

\* the effects a render schedules: those whose dependency array changed
EffectsOfRender(oldOpen, oldPath, newOpen, newPath) ==
    (IF newPath # oldPath THEN {"scroll"} ELSE {})
    \cup (IF newOpen # oldOpen THEN {"key"} ELSE {})

NavEvent(ev) ==
    [ev |-> ev, open |-> isOpen, wide |-> Wide(viewportWidth), renders |-> 0]

\* every event waits for the queued re-render (a microtask)
Quiet == ~navDirty

\* the re-render of SideNav after a state change
NavRender ==
    /\ navPhase = "mounted" /\ navDirty
    /\ isOpen' = OpenAfterEffects(navEffects, isOpen, viewportWidth)
    /\ currentPath' = PathAfterEffects(navEffects, currentPath, location)
    /\ mqListener' = MqAfterEffects(navEffects, mqListener)
    /\ rafQueue' = RafAfterEffects(navEffects, rafQueue, viewPath)
    /\ keyListeners' = KeysAfterEffects(navEffects, keyListeners, viewOpen)
    /\ viewOpen' = isOpen
    /\ viewPath' = currentPath
    /\ navEffects' = EffectsOfRender(viewOpen, viewPath, isOpen, currentPath)
    /\ navDirty' = (isOpen' # isOpen \/ currentPath' # currentPath)
    /\ navLast' = [navLast EXCEPT !.renders = IF @ = 0 THEN 1 ELSE 2]
    /\ UNCHANGED <<envVars, tocVars, fnVars, items, navPhase, asideScroll>>

\* the pending effects run after paint
NavFlushEffects ==
    /\ navPhase = "mounted" /\ Quiet /\ navEffects # {}
    /\ isOpen' = OpenAfterEffects(navEffects, isOpen, viewportWidth)
    /\ currentPath' = PathAfterEffects(navEffects, currentPath, location)
    /\ mqListener' = MqAfterEffects(navEffects, mqListener)
    /\ rafQueue' = RafAfterEffects(navEffects, rafQueue, viewPath)
    /\ keyListeners' = KeysAfterEffects(navEffects, keyListeners, viewOpen)
    /\ navEffects' = {}
    /\ navDirty' = (isOpen' # isOpen \/ currentPath' # currentPath)
    /\ navLast' = NavEvent(IF "mount" \in navEffects THEN "mount" ELSE "flush")
    /\ UNCHANGED <<envVars, tocVars, fnVars, items, navPhase, viewOpen, viewPath, asideScroll>>

\* a click on the toggle button
Toggle ==
    /\ navPhase = "mounted" /\ Quiet
    /\ isOpen' = toggleNav(viewOpen)
    /\ navDirty' = (isOpen' # isOpen)
    /\ navLast' = NavEvent("toggle")
    /\ UNCHANGED <<envVars, tocVars, fnVars, items, navPhase, currentPath, viewOpen,
                   viewPath, navEffects, mqListener, keyListeners, rafQueue, asideScroll>>

\* the overlay rendered without the isOpen test
OverlayRenderedAlways == navPhase = "mounted"

\* {isOpen && <div ... onClick={toggleNav} />}
OverlayRendered == navPhase = "mounted" /\ viewOpen

\* the lg: variant of the style sheet applies from 64rem = 1024px on
LgMinWidth == 1024

\* the class list without its lg:block
AsideClassesNoLg(open) == IF open THEN {"block"} ELSE {"hidden"}

\* the display classes of <aside>: isOpen ? "block" : "hidden lg:block"
AsideClasses(open) == IF open THEN {"block"} ELSE {"hidden", "lg:block"}

\* the display the style sheet computes from the classes: a variant that
\* applies wins over the unprefixed utilities
Displayed(classes, width) ==
    IF "lg:block" \in classes /\ width >= LgMinWidth THEN TRUE
    ELSE IF "lg:hidden" \in classes /\ width >= LgMinWidth THEN FALSE
    ELSE "hidden" \notin classes

\* the navigation region is on screen
NavVisible == navPhase = "mounted" /\ Displayed(AsideClasses(viewOpen), viewportWidth)

\* a click on the overlay
OverlayClick ==
    /\ OverlayRendered /\ Quiet
    /\ isOpen' = toggleNav(viewOpen)
    /\ navDirty' = (isOpen' # isOpen)
    /\ navLast' = NavEvent("overlay")
    /\ UNCHANGED <<envVars, tocVars, fnVars, items, navPhase, currentPath, viewOpen,
                   viewPath, navEffects, mqListener, keyListeners, rafQueue, asideScroll>>

Keys == {"Escape", "Enter"}

\* a keydown event on the window
KeyDown ==
    /\ Quiet
    /\ \E key \in Keys :
        /\ isOpen' = DispatchKeyDown(keyListeners, key, isOpen)
        /\ navLast' = NavEvent(key)
    /\ navDirty' = (isOpen' # isOpen)
    /\ UNCHANGED <<envVars, tocVars, fnVars, items, navPhase, currentPath, viewOpen,
                   viewPath, navEffects, mqListener, keyListeners, rafQueue, asideScroll>>

Widths == {320, 1023, 1024, 1440}

\* the window is resized; the media query fires "change" when matches changes,
\* to the listener registered on it
Resize ==
    /\ Quiet
    /\ \E w \in Widths \ {viewportWidth} :
        /\ viewportWidth' = w
        /\ IF mqListener /\ Wide(w) # Wide(viewportWidth)
           THEN /\ isOpen' = handleChange(Wide(w), isOpen)
                /\ navLast' = NavEvent("breakpoint")
           ELSE /\ isOpen' = isOpen
                /\ navLast' = NavEvent("resize")
    /\ navDirty' = (isOpen' # isOpen)
    /\ UNCHANGED <<location, dom, hash, historyLen, pageScroll, tocVars, fnVars, items,
                   navPhase, currentPath, viewOpen, viewPath, navEffects, mqListener,
                   keyListeners, rafQueue, asideScroll>>

Start == <<"/", "s", "t", "a", "r", "t">>
Docs == <<"/", "d", "o", "c", "s">>
GettingStarted ==
    Docs \o <<"/", "g", "e", "t", "t", "i", "n", "g", "-", "s", "t", "a", "r", "t", "e", "d">>

\* the pathnames location.pathname takes
Locations == {RootPath, Start, Start \o <<"/">>, Docs \o <<"/">>, GettingStarted}

\* the pathname of the document changes without a reload (a client-side route
\* change); SideNav listens to no location event
LocationChange ==
    /\ Quiet
    /\ \E pathname \in Locations \ {location} : location' = pathname
    /\ navLast' = NavEvent("location")
    /\ UNCHANGED <<viewportWidth, dom, hash, historyLen, pageScroll, tocVars, fnVars, items,
                   navPhase, isOpen, currentPath, viewOpen, viewPath, navDirty, navEffects,
                   mqListener, keyListeners, rafQueue, asideScroll>>

\* SideNav is removed: the clean-ups of the effects that ran are called, the
\* effects still pending are dropped
NavUnmount ==
    /\ navPhase = "mounted" /\ Quiet
    /\ navPhase' = "unmounted"
    /\ mqListener' = FALSE
    /\ keyListeners' = KeyCleanup(keyListeners)
    /\ navEffects' = {}
    /\ navLast' = NavEvent("unmount")
    /\ UNCHANGED <<envVars, tocVars, fnVars, items, isOpen, currentPath, viewOpen,
                   viewPath, navDirty, rafQueue, asideScroll>>

-----------------------------------------------------------------------------
(* components/article-toc.tsx: ArticleToc, its effect and handlers *)

\* the build pushing onto the outline it already had
TocBuildAppending(d, aid, w, curItems) ==
    LET article == GetElementById(d, aid)
    IN IF article = None
       THEN [dom |-> d, tocItems |-> curItems, observed |-> {}, warned |-> w \cup {aid}]
       ELSE LET ref == article[1]
                d2 == IF ref.i = 0 THEN [d EXCEPT ![ref.c].els = AssignIds(@)] ELSE d
            IN [dom |-> d2,
                tocItems |-> curItems \o
                             (IF ref.i = 0 THEN CollectItems(d2[ref.c].els) ELSE <<>>),
                observed |-> Range(QueryHeadings(d2, ref)),
                warned |-> w]

\* the effect returning no clean-up: the headings of the previous run stay
\* observed
TocBuildLeaking(d, aid, w, curItems) ==
    LET article == GetElementById(d, aid)
    IN IF article = None
       THEN [dom |-> d, tocItems |-> curItems, observed |-> observed, warned |-> w \cup {aid}]
       ELSE LET ref == article[1]
                d2 == IF ref.i = 0 THEN [d EXCEPT ![ref.c].els = AssignIds(@)] ELSE d
            IN [dom |-> d2,
                tocItems |-> IF ref.i = 0 THEN CollectItems(d2[ref.c].els) ELSE <<>>,
                observed |-> observed \cup Range(QueryHeadings(d2, ref)),
                warned |-> w]

\* one run of the effect of [articleId]: the clean-up of the previous run has
\* unobserved its headings; then the container is looked up, its headings get
\* their ids, setTocItems(items) is called and a new observer observes them
TocBuild(d, aid, w, curItems) ==
    LET article == GetElementById(d, aid)
    IN IF article = None
       THEN [dom |-> d, tocItems |-> curItems, observed |-> {}, warned |-> w \cup {aid}]
       ELSE LET ref == article[1]
                d2 == IF ref.i = 0 THEN [d EXCEPT ![ref.c].els = AssignIds(@)] ELSE d
            IN [dom |-> d2,
                tocItems |-> IF ref.i = 0 THEN CollectItems(d2[ref.c].els) ELSE <<>>,
                observed |-> Range(QueryHeadings(d2, ref)),
                warned |-> w]

RunTocEffect(aid) ==
    LET built == TocBuild(dom, aid, warned, tocItems)
    IN /\ dom' = built.dom
       /\ tocItems' = built.tocItems
       /\ observed' = built.observed
       /\ warned' = built.warned

\* the latest event: its kind, the container id a build of it looked up, and for
\* a batch of notifications the batch and the activeId before it
TocEvent(ev, built) == [ev |-> ev, built |-> built, batch |-> <<>>, prev |-> EmptyStr]

\* the pending effect runs after paint
TocFlushEffects ==
    /\ tocPhase = "mounted" /\ Quiet /\ tocEffect
    /\ RunTocEffect(articleId)
    /\ tocEffect' = FALSE
    /\ tocLast' = TocEvent("build", Some(articleId))
    /\ UNCHANGED <<viewportWidth, location, hash, historyLen, pageScroll, navVars, fnVars,
                   tocPhase, articleId, activeId>>

\* articleId = "tabi-article" by default
TabiArticleId == <<"t", "a", "b", "i", "-", "a", "r", "t", "i", "c", "l", "e">>
OtherId == <<"o", "t", "h", "e", "r">>
MissingId == <<"m", "i", "s", "s", "i", "n", "g">>

\* the values the articleId prop takes; no element has the id MissingId
ArticleIds == {TabiArticleId, OtherId, MissingId}

\* the parent renders ArticleToc with another articleId; the render first runs
\* the effect the previous render left pending
ChangeArticleId ==
    /\ tocPhase = "mounted" /\ Quiet
    /\ \E aid \in ArticleIds \ {articleId} : articleId' = aid
    /\ IF tocEffect
       THEN RunTocEffect(articleId) /\ tocLast' = TocEvent("prop", Some(articleId))
       ELSE UNCHANGED <<dom, tocItems, observed, warned>> /\ tocLast' = TocEvent("prop", None)
    /\ tocEffect' = TRUE
    /\ UNCHANGED <<viewportWidth, location, hash, historyLen, pageScroll, navVars, fnVars,
                   tocPhase, activeId>>

MaxBatch == 2

\* the notifications one callback of the observer can carry: entries about the
\* observed headings, in any order
Batches ==
    SeqsUpTo([target : observed, isIntersecting : BOOLEAN], MaxBatch) \ {<<>>}

RECURSIVE ApplyBatchClearing(_, _, _)
\* a callback that clears activeId when the active heading stops intersecting
ApplyBatchClearing(entries, cur, d) ==
    IF entries = <<>> THEN cur
    ELSE ApplyBatchClearing(Tail(entries),
                            IF Head(entries).isIntersecting
                            THEN ElementId(d, Head(entries).target)
                            ELSE IF ElementId(d, Head(entries).target) = cur
                                 THEN EmptyStr ELSE cur,
                            d)

RECURSIVE ApplyBatchFirstWins(_, _, _)
\* a callback that stops at the first intersecting entry
ApplyBatchFirstWins(entries, cur, d) ==
    IF entries = <<>> THEN cur
    ELSE IF Head(entries).isIntersecting THEN ElementId(d, Head(entries).target)
    ELSE ApplyBatchFirstWins(Tail(entries), cur, d)

RECURSIVE ApplyBatch(_, _, _)
\* entries.forEach(entry => { if (entry.isIntersecting) setActiveId(entry.target.id) })
ApplyBatch(entries, cur, d) ==
    IF entries = <<>> THEN cur
    ELSE ApplyBatch(Tail(entries),
                    IF Head(entries).isIntersecting
                    THEN ElementId(d, Head(entries).target) ELSE cur,
                    d)

\* the observer calls back with a batch; a changed activeId re-renders, and the
\* render runs the effect if it is pending
IntersectionBatch ==
    /\ tocPhase = "mounted" /\ Quiet /\ observed # {}
    /\ \E batch \in Batches :
        /\ activeId' = ApplyBatch(batch, activeId, dom)
        /\ IF tocEffect /\ activeId' # activeId
           THEN /\ RunTocEffect(articleId)
                /\ tocEffect' = FALSE
                /\ tocLast' = [TocEvent("batch", Some(articleId))
                                 EXCEPT !.batch = batch, !.prev = activeId]
           ELSE /\ UNCHANGED <<dom, tocItems, observed, warned, tocEffect>>
                /\ tocLast' = [TocEvent("batch", None)
                                 EXCEPT !.batch = batch, !.prev = activeId]
    /\ UNCHANGED <<viewportWidth, location, hash, historyLen, pageScroll, navVars, fnVars,
                   tocPhase, articleId>>

MaxHistory == 3

\* if (tocItems.length === 0) return null
TocRendered == tocPhase = "mounted" /\ tocItems # <<>>

RECURSIVE TocEntries(_, _, _)
\* tocItems.map(item => <li key style><a href onClick className>{item.text}</a></li>),
\* from entry k on: the indent is (level - 1) steps, the entry is marked active
\* when activeId === item.id
TocEntries(outline, active, k) ==
    IF k > Len(outline) THEN <<>>
    ELSE <<[key |-> outline[k].id,
            href |-> <<"#">> \o outline[k].id,
            indent |-> outline[k].level - 1,
            text |-> outline[k].text,
            active |-> (active = outline[k].id)]>>
         \o TocEntries(outline, active, k + 1)

\* the component returning its <aside> also for an empty outline
TocViewAlways(outline, active) == Some(TocEntries(outline, active, 1))

\* what ArticleToc returns: null for an empty outline, else the <aside> with
\* its entries
TocView(outline, active) ==
    IF Len(outline) = 0 THEN None ELSE Some(TocEntries(outline, active, 1))

\* handleClick marking the clicked entry active itself
HandleClickSetsActive(id, d, scroll, h, len, active) ==
    LET element == GetElementById(d, id)
    IN IF element # None
       THEN [pageScroll |-> element, hash |-> <<"#">> \o id, historyLen |-> len + 1,
             activeId |-> id]
       ELSE [pageScroll |-> scroll, hash |-> h, historyLen |-> len, activeId |-> active]

\* handleClick without its if (element)
HandleClickUnchecked(id, d, scroll, h, len, active) ==
    [pageScroll |-> GetElementById(d, id), hash |-> <<"#">> \o id, historyLen |-> len + 1,
     activeId |-> active]

\* handleClick(e, id): what the click leaves of the scroll target, the hash,
\* the history and activeId
HandleClick(id, d, scroll, h, len, active) ==
    LET element == GetElementById(d, id)
    IN IF element # None
       THEN [pageScroll |-> element, hash |-> <<"#">> \o id, historyLen |-> len + 1,
             activeId |-> active]
       ELSE [pageScroll |-> scroll, hash |-> h, historyLen |-> len, activeId |-> active]

\* a click on entry k of the rendered outline
ClickEntry(k) ==
    /\ TocRendered /\ Quiet
    /\ k \in 1..Len(tocItems)
    /\ LET after == HandleClick(tocItems[k].id, dom, pageScroll, hash, historyLen, activeId)
       IN /\ after.historyLen <= MaxHistory
          /\ pageScroll' = after.pageScroll
          /\ hash' = after.hash
          /\ historyLen' = after.historyLen
          /\ activeId' = after.activeId
    /\ tocLast' = TocEvent("click", None)
    /\ UNCHANGED <<viewportWidth, location, dom, navVars, fnVars, tocPhase, articleId,
                   tocItems, tocEffect, observed, warned>>

\* a click on an entry of the rendered outline
Click == \E k \in 1..Len(tocItems) : ClickEntry(k)

\* ArticleToc is removed: the clean-up of the effect unobserves the headings
TocUnmount ==
    /\ tocPhase = "mounted" /\ Quiet
    /\ tocPhase' = "unmounted"
    /\ observed' = {}
    /\ tocEffect' = FALSE
    /\ tocLast' = TocEvent("unmount", None)
    /\ UNCHANGED <<envVars, navVars, fnVars, articleId, tocItems, activeId, warned>>

-----------------------------------------------------------------------------
(* components/link.tsx: the measurement the scroll effect defers to the next frame *)

\* document.querySelector("aside"): SideNav's <aside> comes first in the
\* layout, ArticleToc's (rendered when the outline is not empty) after it
FirstAside ==
    IF navPhase = "mounted" THEN Some("nav")
    ELSE IF TocRendered THEN Some("toc")
    ELSE None

RECURSIVE TocAnchors(_, _)
\* the <a href={`#${item.id}`}> of ArticleToc's <aside>, from entry k on
TocAnchors(outline, k) ==
    IF k > Len(outline) THEN <<>>
    ELSE <<[owner |-> "toc", k |-> k, href |-> <<"#">> \o outline[k].id]>>
         \o TocAnchors(outline, k + 1)

RECURSIVE NavLinks(_, _)
NavLinks(anchors, k) ==
    IF k > Len(anchors) THEN <<>>
    ELSE <<[owner |-> "nav", k |-> k, href |-> anchors[k].href]>> \o NavLinks(anchors, k + 1)

\* document.querySelector(`aside nav a[href="${normalizedPath}"]`): the first
\* anchor of an <aside> whose href attribute is exactly normalizedPath
QueryActiveLink(normalizedPath) ==
    LET anchors == (IF navPhase = "mounted"
                    THEN NavLinks(NavAnchors(items, 1, viewPath), 1) ELSE <<>>)
                   \o (IF TocRendered THEN TocAnchors(tocItems, 1) ELSE <<>>)
        found == SelectSeq(anchors, LAMBDA a : a.href = normalizedPath)
    IN IF found = <<>> THEN None ELSE Some(found[1])

\* what getBoundingClientRect and scrollTop can return at the frame
Geometries ==
    [asideTop : {94}, asideHeight : {600, 601}, scrollTop : {0, 250},
     linkTop : {40, 94, 400, 660, 700}, linkHeight : {36}]

\* a test of the top edge alone
IsVisibleTopOnly(g) == g.linkTop >= g.asideTop

\* linkRect.top >= asideRect.top && linkRect.bottom <= asideRect.bottom
IsVisible(g) ==
    /\ g.linkTop >= g.asideTop
    /\ g.linkTop + g.linkHeight <= g.asideTop + g.asideHeight

\* twice aside.scrollTop + relativeTop - asideRect.height / 2 + linkRect.height / 2
\* (doubled: the halves of odd heights stay integers)
ScrollTopTwice(g) ==
    2 * g.scrollTop + 2 * (g.linkTop - g.asideTop) - g.asideHeight + g.linkHeight

\* the callback of requestAnimationFrame runs (nothing cancels it), the
\* rectangles it measures being g
RafFrameWith(g) ==
    /\ rafQueue # <<>> /\ Quiet
    /\ LET aside == FirstAside
           activeLink == QueryActiveLink(normalizePath(Some(Head(rafQueue)))[1])
       IN asideScroll' =
                IF aside # None /\ activeLink # None /\ ~IsVisible(g)
                THEN Append(asideScroll,
                            [aside |-> aside[1], link |-> activeLink[1],
                             topTwice |-> ScrollTopTwice(g), geometry |-> g])
                ELSE asideScroll
    /\ rafQueue' = Tail(rafQueue)
    /\ navLast' = NavEvent("frame")
    /\ UNCHANGED <<envVars, tocVars, fnVars, items, navPhase, isOpen, currentPath,
                   viewOpen, viewPath, navDirty, navEffects, mqListener, keyListeners>>

\* the frame after the scroll effect scheduled its callback
RafFrame == \E g \in Geometries : RafFrameWith(g)

-----------------------------------------------------------------------------
(* Application of normalizePath to a drawn argument, twice *)

NormalizeStep ==
    /\ fnPc \in {"arg", "once"}
    /\ fnVal' = Append(fnVal, normalizePath(IF fnPc = "arg" THEN fnArg ELSE fnVal[Len(fnVal)]))
    /\ fnPc' = IF fnPc = "arg" THEN "once" ELSE "twice"
    /\ UNCHANGED <<envVars, navVars, tocVars, fnArg>>

-----------------------------------------------------------------------------
(* The inputs: navigation entries, locations, articles *)

\* [{label:"Home",href:"/"},{title:"Guides",items:[{label:"Start",href:"/start"}]}]
GuideItems ==
    <<[label |-> "Home", href |-> RootPath],
      [title |-> "Guides", items |-> <<[label |-> "Start", href |-> Start]>>]>>

\* entries as pages/docs/_layout.tsx writes them, and one href with a trailing slash
DocsItems ==
    <<[label |-> "Home", href |-> RootPath],
      [label |-> "Docs", href |-> Docs],
      [title |-> "Tabirun App",
       items |-> <<[label |-> "Getting Started", href |-> GettingStarted],
                   [label |-> "Start", href |-> Start \o <<"/">>]>>]>>

ItemLists == {GuideItems, DocsItems}

H(n) == <<"H", DigitChars[n + 1]>>
Element(tag, text, id) == [tag |-> tag, text |-> text, id |-> id]
Paragraph == Element(<<"P">>, <<"x">>, EmptyStr)

Intro == <<"I", "n", "t", "r", "o">>
Setup == <<"S", "e", "t", "u", "p">>

\* headings "Intro" (h1) and "Setup" (h2) without ids, a paragraph between them
IntroSetupArticle ==
    <<Element(H(1), Intro, EmptyStr), Paragraph, Element(H(2), Setup, EmptyStr)>>

\* two headings with the same text
TwinsArticle == <<Element(H(2), Setup, EmptyStr), Element(H(3), Setup, EmptyStr)>>

\* no heading at all
ProseArticle == <<Paragraph>>

\* a heading with an explicit id, and one whose text slugifies to nothing
ExplicitArticle ==
    <<Element(H(2), <<"A", "P", "I">>, <<"a", "p", "i", "-", "r", "e", "f">>),
      Paragraph,
      Element(H(6), <<"!", "?">>, EmptyStr)>>

\* "### In-Memory Store (Default)" of pages/docs/app/middleware/rate-limit.md
HyphenArticle ==
    <<Element(H(3), <<"I", "n", "-", "M", "e", "m", "o", "r", "y", " ", "S", "t", "o",
                      "r", "e", " ", "(", "D", "e", "f", "a", "u", "l", "t", ")">>,
              EmptyStr)>>

MaxTextLen == 3
TextAlphabet == {"A", "b", "_", " ", "-", "!"}

\* one heading without id, of every text up to MaxTextLen over TextAlphabet
SmallArticles ==
    {<<Element(H(4), text, EmptyStr)>> : text \in SeqsUpTo(TextAlphabet, MaxTextLen)}

NamedArticles ==
    {IntroSetupArticle, TwinsArticle, ProseArticle, ExplicitArticle, HyphenArticle}

\* the document: the default container with the article, and a second container
Document(article) ==
    <<[id |-> TabiArticleId, els |-> article], [id |-> OtherId, els |-> ExplicitArticle]>>

MaxPathLen == 5

PathArgs ==
    {None} \cup {Some(p) : p \in SeqsUpTo({"/", "a"}, MaxPathLen)}
           \cup {Some(Docs \o <<"/">>), Some(GettingStarted)}

-----------------------------------------------------------------------------
(* Initial states: the first render of both components is committed, their   *)
(* effects are pending                                                       *)

EnvInit(widths, locations, articles) ==
    /\ viewportWidth \in widths
    /\ location \in locations
    /\ dom \in {Document(article) : article \in articles}
    /\ hash = EmptyStr
    /\ historyLen = 1
    /\ pageScroll = None

\* useState(false), useState<string>(), three effects scheduled
NavInit(itemLists) ==
    /\ items \in itemLists
    /\ navPhase = "mounted"
    /\ isOpen = FALSE
    /\ currentPath = None
    /\ viewOpen = FALSE
    /\ viewPath = None
    /\ navDirty = FALSE
    /\ navEffects = {"mount", "scroll", "key"}
    /\ mqListener = FALSE
    /\ keyListeners = <<>>
    /\ rafQueue = <<>>
    /\ asideScroll = <<>>
    /\ navLast = [ev |-> "init", open |-> FALSE, wide |-> Wide(viewportWidth), renders |-> 0]

\* useState<TocItem[]>([]), useState<string>(""), the effect scheduled
TocInit(articleIds) ==
    /\ tocPhase = "mounted"
    /\ articleId \in articleIds
    /\ tocItems = <<>>
    /\ activeId = EmptyStr
    /\ tocEffect = TRUE
    /\ observed = {}
    /\ warned = {}
    /\ tocLast = TocEvent("init", None)

FnOff == fnPc = "off" /\ fnArg = None /\ fnVal = <<>>

InitNav ==
    /\ EnvInit(Widths, Locations, {IntroSetupArticle})
    /\ NavInit(ItemLists)
    /\ TocInit({TabiArticleId})
    /\ FnOff

InitToc ==
    /\ EnvInit({1024}, {Start \o <<"/">>}, NamedArticles)
    /\ NavInit({GuideItems})
    /\ TocInit(ArticleIds)
    /\ FnOff

InitSlug ==
    /\ EnvInit({1024}, {Start \o <<"/">>}, NamedArticles \cup SmallArticles)
    /\ NavInit({GuideItems})
    /\ TocInit({TabiArticleId})
    /\ FnOff

InitPath ==
    /\ EnvInit({1024}, {Start \o <<"/">>}, {IntroSetupArticle})
    /\ NavInit({GuideItems})
    /\ TocInit({TabiArticleId})
    /\ fnPc = "arg" /\ fnArg \in PathArgs /\ fnVal = <<>>

NextNav ==
    \/ NavRender
    \/ NavFlushEffects
    \/ Toggle
    \/ OverlayClick
    \/ KeyDown
    \/ Resize
    \/ LocationChange
    \/ RafFrame
    \/ NavUnmount

NextToc ==
    \/ TocFlushEffects
    \/ ChangeArticleId
    \/ IntersectionBatch
    \/ Click
    \/ TocUnmount

\* The two components share no state: each is specified on its own, the other
\* one left as constructed.

\* SideNav, over every width, location and entry list
SpecNav == InitNav /\ [][NextNav]_vars

\* ArticleToc alone, over every article
SpecToc == InitToc /\ [][NextToc]_vars

\* the build of the outline alone, over every small heading text
SpecSlug == InitSlug /\ [][TocFlushEffects \/ ChangeArticleId]_vars

\* normalizePath alone, over every argument
SpecPath == InitPath /\ [][NormalizeStep]_vars

\* both components of the layout in one document: a narrow viewport, an
\* article of prose in the default container
InitPage ==
    /\ EnvInit({1023}, {Docs \o <<"/">>}, {ProseArticle})
    /\ NavInit({GuideItems})
    /\ TocInit({TabiArticleId})
    /\ FnOff

\* the events of ArticleToc and the events of SideNav that write its state
NextPage ==
    \/ NextToc
    \/ NavRender
    \/ NavFlushEffects
    \/ Toggle
    \/ OverlayClick
    \/ KeyDown
    \/ Resize

\* ArticleToc next to SideNav
SpecPage == InitPage /\ [][NextPage]_vars

-----------------------------------------------------------------------------
(* Properties of SideNav, under SpecNav *)

NavView == NavAnchors(items, 1, viewPath)

\* C1: a breakpoint-change event delivered to SideNav sets isOpen to the new
\* breakpoint value (wide => OPEN, narrow => CLOSED) whatever toggles, Escapes
\* and overlay clicks came before, and the re-render commits that value.
C1_BreakpointForcesState ==
    navLast.ev = "breakpoint" =>
        /\ navLast.wide # Wide(viewportWidth)
        /\ isOpen = Wide(viewportWidth)
        /\ (~navDirty => viewOpen = Wide(viewportWidth))

\* C1, its case: the drawer was OPEN at narrow width (a manual toggle), the
\* viewport became wide, the drawer is OPEN.
C1_Witness ==
    /\ navLast.ev = "breakpoint" /\ navLast.open /\ ~navLast.wide
    /\ Wide(viewportWidth) /\ isOpen /\ viewOpen /\ ~navDirty

\* C3: an entry is rendered active iff normalize(currentPath) = normalize(href),
\* top-level or inside a group; "/docs" is not active at "/docs/getting-started";
\* at "/start/" the entry "/start" is active and the entry "/" is not.
C3_ActiveIffNormalizedEqual ==
    navPhase = "mounted" =>
        \A k \in 1..Len(NavView) :
            LET href == NavView[k].href
            IN /\ NavView[k].active <=> (normalizePath(viewPath) = normalizePath(Some(href)))
               /\ (viewPath = Some(GettingStarted) /\ href = Docs => ~NavView[k].active)
               /\ (viewPath = Some(Start \o <<"/">>) /\ href = Start => NavView[k].active)
               /\ (viewPath = Some(Start \o <<"/">>) /\ href = RootPath => ~NavView[k].active)

\* C3, its case: at "/start/" the grouped entry "/start" is rendered active and
\* the top-level entry "/" is not.
C3_Witness ==
    /\ navPhase = "mounted" /\ viewPath = Some(Start \o <<"/">>)
    /\ \E k \in 1..Len(NavView) :
        NavView[k].grouped /\ NavView[k].href = Start /\ NavView[k].active
    /\ \E k \in 1..Len(NavView) :
        ~NavView[k].grouped /\ NavView[k].href = RootPath /\ ~NavView[k].active

\* C8 as stated: in the first state the component renders, isOpen is OPEN if
\* the viewport is wide and CLOSED if it is narrow.
C8_FirstRenderFollowsBreakpoint ==
    navLast.ev = "init" => viewOpen = Wide(viewportWidth)

\* the mount effect has run and the re-render it queued has not
MountEffectJustRan == mqListener /\ navDirty /\ viewPath = None /\ currentPath # None

\* C8 amended: the first render has isOpen CLOSED at every width; the mount
\* effect, which runs after it, sets isOpen to OPEN if the viewport is wide
\* (>= 1024px) and to CLOSED if it is narrow, and the re-render it queues
\* commits that value.
C8_StateFollowsBreakpointAfterMount ==
    /\ navLast.ev = "init" => ~isOpen /\ ~viewOpen
    /\ MountEffectJustRan => isOpen = Wide(viewportWidth)
    /\ navLast.ev = "mount" /\ ~navDirty => viewOpen = Wide(viewportWidth)

\* C8, its case: at a wide viewport the mount effect has run and the drawer is
\* rendered OPEN.
C8_Witness ==
    /\ navLast.ev = "mount" /\ navLast.renders = 1 /\ ~navDirty
    /\ viewportWidth >= MinWidth /\ viewOpen

\* C9: toggle() flips the state at either breakpoint: the value it writes is
\* the negation of isOpen before the call, and the re-render commits it.
C9_ToggleFlips ==
    navLast.ev = "toggle" =>
        /\ (navLast.renders = 0 => isOpen = ~navLast.open)
        /\ (navLast.renders = 1 => viewOpen = ~navLast.open)

\* C9, its case: at a wide viewport a toggle took the drawer from OPEN to CLOSED.
C9_Witness ==
    /\ navLast.ev = "toggle" /\ navLast.renders = 1
    /\ navLast.open /\ ~viewOpen /\ ~isOpen /\ Wide(viewportWidth)

\* C10 as stated: Escape while OPEN leaves the state CLOSED; Escape while
\* CLOSED and any other key leave the state unchanged.
C10_EscapeCloses ==
    navPhase = "mounted" =>
        /\ (navLast.ev = "Escape" /\ navLast.open => ~isOpen)
        /\ (navLast.ev = "Escape" /\ ~navLast.open => ~isOpen)
        /\ (navLast.ev = "Enter" => isOpen = navLast.open)

-----------------------------------------------------------------------------
(* Properties of normalizePath, under SpecPath *)

EndsWithSlash(s) == s # <<>> /\ s[Len(s)] = "/"

\* C4: normalize(normalize(p)) = normalize(p) for every p; "/" maps to "/",
\* "/docs/" to "/docs"; a result ends with a slash only if it is the root "/".
C4_NormalizeIdempotent ==
    /\ fnPc = "twice" => fnVal[2] = fnVal[1]
    /\ fnPc \in {"once", "twice"} =>
        /\ (fnArg = Some(RootPath) => fnVal[1] = Some(RootPath))
        /\ (fnArg = Some(Docs \o <<"/">>) => fnVal[1] = Some(Docs))
        /\ (fnVal[1] # None /\ EndsWithSlash(fnVal[1][1]) => fnVal[1][1] = RootPath)

\* C4, its case: "/a//" was normalized twice and is "/a".
C4_Witness ==
    /\ fnPc = "twice" /\ fnArg = Some(<<"/", "a", "/", "/">>)
    /\ fnVal = <<Some(<<"/", "a">>), Some(<<"/", "a">>)>>

-----------------------------------------------------------------------------
(* Properties of ArticleToc, under SpecToc and SpecSlug *)

\* C2 as stated: ActiveHeadingId is unset or equals the id of exactly one
\* record of the current outline.
C2_ActiveIsOneRecord ==
    \/ activeId = EmptyStr
    \/ Cardinality({k \in 1..Len(tocItems) : tocItems[k].id = activeId}) = 1

\* the h1..h6 tags, the level of a tag being its place
TagsByLevel == <<<<"H", "1">>, <<"H", "2">>, <<"H", "3">>, <<"H", "4">>, <<"H", "5">>, <<"H", "6">>>>

\* the headings of the element the latest build looked up, in document order
BuiltHeadings ==
    LET article == GetElementById(dom, tocLast.built[1])[1]
    IN IF article.i # 0 THEN <<>>
       ELSE SelectSeq(dom[article.c].els, LAMBDA el : el.tag \in Range(TagsByLevel))

BuiltFound == tocLast.built # None /\ GetElementById(dom, tocLast.built[1]) # None

\* C5: after every build of a container that is found, the outline has one
\* record per h1..h6 element of that container, in document order, with the
\* level of its tag, and no other record.
C5_OutlineComplete ==
    BuiltFound =>
        /\ Len(tocItems) = Len(BuiltHeadings)
        /\ \A k \in 1..Len(tocItems) :
            /\ tocItems[k].text = BuiltHeadings[k].text
            /\ TagsByLevel[tocItems[k].level] = BuiltHeadings[k].tag

\* C5, its case: the default container was built, then the second one: the
\* outline is the second container's two headings.
C5_Witness ==
    /\ BuiltFound /\ tocLast.built = Some(OtherId)
    /\ dom[1].els[1].id = <<"i", "n", "t", "r", "o">>
    /\ Len(tocItems) = 2 /\ tocItems[1].level = 2 /\ tocItems[2].level = 6

\* C6: no step changes the id of an element that has one, and after a build
\* every record's id is its element's id.
C6_ExplicitIdKept ==
    /\ [][\A c \in 1..Len(dom) : \A i \in 1..Len(dom[c].els) :
            dom[c].els[i].id # EmptyStr => dom'[c].els[i].id = dom[c].els[i].id]_vars
    /\ [](BuiltFound => \A k \in 1..Len(tocItems) : tocItems[k].id = BuiltHeadings[k].id)

\* C6, its case: the container whose heading "API" carries the id "api-ref"
\* was built, and the record has that id.
C6_Witness ==
    /\ BuiltFound /\ tocLast.built = Some(OtherId)
    /\ dom[2].els[1].id = <<"a", "p", "i", "-", "r", "e", "f">>
    /\ tocItems[1] = [id |-> <<"a", "p", "i", "-", "r", "e", "f">>,
                      text |-> <<"A", "P", "I">>, level |-> 2]

RECURSIVE SlugFrom(_, _, _)
\* text lowercased, the characters that are neither word characters nor white
\* space (nor, if keepHyphen, hyphens) dropped, each run of white space that is
\* left made one hyphen
SlugFrom(text, keepHyphen, afterSpace) ==
    IF text = <<>> THEN <<>>
    ELSE IF IsSpaceChar(Head(text))
         THEN (IF afterSpace THEN <<>> ELSE <<"-">>) \o SlugFrom(Tail(text), keepHyphen, TRUE)
    ELSE IF IsWordChar(Head(text))
         THEN <<LowerOf(Head(text))>> \o SlugFrom(Tail(text), keepHyphen, FALSE)
    ELSE IF Head(text) = "-" /\ keepHyphen
         THEN <<"-">> \o SlugFrom(Tail(text), keepHyphen, FALSE)
    ELSE SlugFrom(Tail(text), keepHyphen, afterSpace)

\* the id a build step gives to each heading that had none is that slug of its text
BuildAssigns(keepHyphen) ==
    \A c \in 1..Len(dom) : \A i \in 1..Len(dom[c].els) :
        (/\ tocLast'.built = Some(dom[c].id)
         /\ IsHeading(dom[c].els[i])
         /\ dom[c].els[i].id = EmptyStr)
        => dom'[c].els[i].id = SlugFrom(dom[c].els[i].text, keepHyphen, FALSE)

\* C7 as stated: a heading lacking an id receives its text lowercased, with
\* the non-word characters stripped and white space collapsed to hyphens.
C7_SlugStripsNonWord == [][BuildAssigns(FALSE)]_vars

IntroSetupOutline ==
    <<[id |-> <<"i", "n", "t", "r", "o">>, text |-> Intro, level |-> 1],
      [id |-> <<"s", "e", "t", "u", "p">>, text |-> Setup, level |-> 2]>>

\* C7 amended: a heading lacking an id receives its text lowercased, with
\* every character that is not a word character, white space or a hyphen
\* stripped (hyphens are kept) and each run of white space collapsed to one
\* hyphen, the empty string when nothing is left; "Intro"(h1), "Setup"(h2)
\* yield the records intro and setup.
C7_SlugKeepsHyphens ==
    /\ [][BuildAssigns(TRUE)]_vars
    /\ [](tocLast.built = Some(TabiArticleId)
          /\ Len(dom[1].els) = 3
          /\ dom[1].els[1].text = Intro /\ dom[1].els[3].text = Setup
          => tocItems = IntroSetupOutline)

\* C7, its case: the heading "In-Memory Store (Default)" was built and has the
\* id "in-memory-store-default".
C7_Witness ==
    /\ tocLast.built = Some(TabiArticleId)
    /\ Len(tocItems) = 1
    /\ tocItems[1].text = HyphenArticle[1].text
    /\ tocItems[1].id = <<"i", "n", "-", "m", "e", "m", "o", "r", "y", "-", "s", "t", "o",
                          "r", "e", "-", "d", "e", "f", "a", "u", "l", "t">>

-----------------------------------------------------------------------------
(* Properties of SideNav's overlay and visibility, under SpecNav *)

\* C11: the mobile overlay is rendered exactly when the state is OPEN (the
\* rendered state is the state whenever no re-render is queued), and a click on
\* the overlay always leaves the state CLOSED, which the re-render commits.
C11_OverlayIffOpenClickCloses ==
    /\ navPhase = "mounted" /\ ~navDirty => (OverlayRendered <=> isOpen)
    /\ navLast.ev = "overlay" =>
          /\ navLast.open
          /\ ~isOpen
          /\ (navLast.renders >= 1 => ~viewOpen /\ ~OverlayRendered)

\* C11, its case: the overlay was rendered over an OPEN drawer at narrow
\* width, it was clicked, the drawer is rendered CLOSED and the overlay is gone.
C11_Witness ==
    /\ navLast.ev = "overlay" /\ navLast.open /\ ~navLast.wide
    /\ navLast.renders = 1 /\ ~navDirty /\ ~isOpen /\ ~OverlayRendered

\* C12: the navigation region is visible iff isOpen is true or the viewport is
\* wide; at wide width it is visible after any history of toggles, Escapes and
\* breakpoint events, so isOpen decides visibility at narrow width only.
C12_VisibleIffOpenOrWide ==
    navPhase = "mounted" =>
        /\ NavVisible <=> (viewOpen \/ Wide(viewportWidth))
        /\ (~navDirty => viewOpen = isOpen)
        /\ (Wide(viewportWidth) => NavVisible)
        /\ (~Wide(viewportWidth) /\ ~navDirty => (NavVisible <=> isOpen))

\* C12, its case: at wide width the drawer was toggled CLOSED and the
\* navigation region is still visible.
C12_Witness ==
    /\ navLast.ev = "toggle" /\ navLast.renders = 1 /\ ~navDirty
    /\ Wide(viewportWidth) /\ ~isOpen /\ ~viewOpen /\ NavVisible

-----------------------------------------------------------------------------
(* Properties of ArticleToc's missing container, clicks and rendering, under *)
(* SpecToc                                                                   *)

\* the latest event ran the build for a container id that no element has
BuiltMissing ==
    tocLast.built # None /\ GetElementById(dom, tocLast.built[1]) = None

\* C13: whenever the outline is built, at mount or after a change of the
\* container id, and the container is not found, the outline is empty, a
\* diagnostic was emitted and the component renders nothing.
C13_MissingContainerEmptiesOutline ==
    tocPhase = "mounted" /\ BuiltMissing =>
        /\ tocItems = <<>>
        /\ tocLast.built[1] \in warned
        /\ ~TocRendered

\* the heading entry k of the outline points at, if the document has it
TargetOf(k) == GetElementById(dom, tocItems[k].id)

\* C14: a click on an entry whose target heading is present requests a smooth
\* scroll to it and sets the hash to #<id> without adding a history entry: the
\* number of history entries is the same before and after the click.
C14_ClickKeepsHistoryLength ==
    [][\A k \in 1..Len(tocItems) :
          ClickEntry(k) /\ TargetOf(k) # None =>
              /\ pageScroll' = TargetOf(k)
              /\ hash' = <<"#">> \o tocItems[k].id
              /\ historyLen' = historyLen]_vars

\* C15: a click on an entry whose target heading is absent is a silent no-op:
\* no scroll is requested, the hash and the history are unchanged, activeId
\* and the outline are unchanged, and no diagnostic is emitted.
C15_AbsentTargetNoOp ==
    [][\A k \in 1..Len(tocItems) :
          ClickEntry(k) /\ TargetOf(k) = None =>
              UNCHANGED <<pageScroll, hash, historyLen, activeId, tocItems, warned, dom>>]_vars

\* C15, its case: the outline has an entry without target (the heading "!?",
\* whose id is empty), the only click so far was on it, and nothing was
\* scrolled, pushed or reported.
C15_Witness ==
    /\ tocLast.ev = "click" /\ TocRendered
    /\ \E k \in 1..Len(tocItems) : TargetOf(k) = None
    /\ pageScroll = None /\ hash = EmptyStr /\ historyLen = 1 /\ warned = {}

\* the entries ArticleToc has on screen
RenderedEntries ==
    IF tocPhase = "mounted" /\ TocView(tocItems, activeId) # None
    THEN TocView(tocItems, activeId)[1] ELSE <<>>

\* C16: a rendered entry is marked active iff its id equals activeId, and in
\* every reachable state at most one rendered entry is marked active.
C16_AtMostOneEntryActive ==
    /\ \A k \in 1..Len(RenderedEntries) :
          RenderedEntries[k].active <=> (tocItems[k].id = activeId)
    /\ Cardinality({k \in 1..Len(RenderedEntries) : RenderedEntries[k].active}) <= 1

\* the latest event built the outline of a container that has no heading
BuiltHeadless == BuiltFound /\ BuiltHeadings = <<>>

\* C17: ArticleToc renders nothing, no container element at all, iff the
\* outline is empty; an article without heading elements yields an empty
\* outline, no rendering and no diagnostic.
C17_RendersNothingIffEmpty ==
    tocPhase = "mounted" =>
        /\ TocView(tocItems, activeId) = None <=> tocItems = <<>>
        /\ TocRendered <=> TocView(tocItems, activeId) # None
        /\ BuiltHeadless =>
              /\ tocItems = <<>>
              /\ TocView(tocItems, activeId) = None
              /\ tocLast.built[1] \notin warned

\* C17, its case: the outline of a container with headings was on screen, the
\* container id changed to an article of prose only, the build found it and
\* nothing is rendered.
C17_Witness ==
    /\ tocPhase = "mounted" /\ BuiltHeadless /\ tocLast.built = Some(TabiArticleId)
    /\ OtherId \notin warned /\ hash # EmptyStr
    /\ TocView(tocItems, activeId) = None

\* the positions of the intersecting entries of a batch
Intersecting(batch) == {k \in 1..Len(batch) : batch[k].isIntersecting}

\* the greatest position of a non-empty set of positions
LastOf(positions) == CHOOSE k \in positions : \A j \in positions : j <= k

\* C19: after a batch of notifications is processed, activeId is the id of the
\* last intersecting entry in the batch's delivery order when the batch has an
\* intersecting entry (delivery order, not document order, decides), and is
\* what it was before when the batch has none.
C19_LastIntersectingWins ==
    tocLast.ev = "batch" =>
        IF Intersecting(tocLast.batch) = {}
        THEN activeId = tocLast.prev
        ELSE activeId = ElementId(dom, tocLast.batch[LastOf(Intersecting(tocLast.batch))].target)

\* C19, its case: "Setup" was delivered before "Intro", which precedes it in
\* the document, both intersecting, and activeId is the id of "Intro".
C19_Witness ==
    /\ tocLast.ev = "batch" /\ Len(tocLast.batch) = 2
    /\ Intersecting(tocLast.batch) = {1, 2}
    /\ tocLast.batch[1].target.c = tocLast.batch[2].target.c
    /\ tocLast.batch[1].target.i > tocLast.batch[2].target.i
    /\ activeId = ElementId(dom, tocLast.batch[2].target)
    /\ activeId # ElementId(dom, tocLast.batch[1].target)

-----------------------------------------------------------------------------
(* Properties of SideNav's currentPath, under SpecNav *)

\* C20: currentPath is captured once, by the mount effect, from the location;
\* after that capture no event (toggle, Escape, overlay click, breakpoint
\* change, in-page location change) changes it while the component lives.
C20_CurrentPathCapturedOnce ==
    /\ [](MountEffectJustRan => currentPath = Some(location))
    /\ [][currentPath # None => currentPath' = currentPath]_vars

\* C20, its case: the pathname changed after the capture, the drawer was
\* toggled and re-rendered, and currentPath is still the pathname captured.
C20_Witness ==
    /\ navPhase = "mounted" /\ navLast.ev = "toggle" /\ navLast.renders = 1
    /\ currentPath # None /\ currentPath # Some(location) /\ viewPath = currentPath

-----------------------------------------------------------------------------
(* Properties of activeId's writers, under SpecPage *)

\* C18: activeId is written only by intersection notifications: a click on an
\* entry (target present or absent), a rebuild of the outline and every
\* SideNav event leave it unchanged.
C18_OnlyIntersectionWritesActive ==
    [][/\ activeId' # activeId =>
             /\ IntersectionBatch
             /\ tocLast'.ev = "batch" /\ tocLast'.prev = activeId
             /\ Intersecting(tocLast'.batch) # {}
       /\ tocLast'.ev \in {"click", "build", "prop", "unmount"} => activeId' = activeId
       /\ navVars' # navVars \/ viewportWidth' # viewportWidth => activeId' = activeId]_vars

\* C18, its case: next to a SideNav that was toggled, an entry whose target is
\* present was clicked, the hash is its id and activeId is another value.
C18_Witness ==
    /\ tocLast.ev = "click" /\ navLast.ev = "toggle"
    /\ hash # EmptyStr /\ hash # <<"#">> \o activeId
    /\ \E k \in 1..Len(tocItems) : hash = <<"#">> \o tocItems[k].id /\ TargetOf(k) # None

-----------------------------------------------------------------------------
(* Properties of SideNav's scroll-into-view, under SpecNav *)

\* C21: the scroll-into-view of the active link is scheduled at most once per
\* change of currentPath: a frame callback is queued only by the scroll effect
\* of a render that changed currentPath, one callback at a time; breakpoint
\* changes, toggles, Escape and overlay clicks schedule no measurement and
\* request no scroll.
C21_ScrollScheduledOncePerPath ==
    /\ [](Len(rafQueue) <= 1 /\ Len(asideScroll) <= 1)
    /\ [][/\ "scroll" \in navEffects' /\ "scroll" \notin navEffects => viewPath' # viewPath
          /\ rafQueue' # rafQueue /\ rafQueue' # <<>> =>
                /\ "scroll" \in navEffects /\ "scroll" \notin navEffects'
                /\ rafQueue = <<>> /\ asideScroll = <<>>
                /\ rafQueue' = <<currentPath[1]>>
          /\ navLast'.ev \in {"toggle", "overlay", "Escape", "Enter", "breakpoint", "resize"}
                /\ navLast'.renders = 0 /\ navLast' # navLast =>
                    rafQueue' = rafQueue /\ asideScroll' = asideScroll]_vars

\* C21, its case: the one measurement ran and scrolled, then the viewport
\* crossed the breakpoint and the drawer re-rendered; nothing is scheduled.
C21_Witness ==
    /\ navPhase = "mounted" /\ navLast.ev = "breakpoint" /\ navLast.renders >= 1
    /\ ~navDirty /\ "scroll" \notin navEffects /\ rafQueue = <<>> /\ Len(asideScroll) = 1

\* the link element the queued frame callback will look up
LinkToLocate == QueryActiveLink(normalizePath(Some(Head(rafQueue)))[1])

\* C22: once currentPath is known, whenever some navigation entry is active
\* the frame callback locates that entry's link element in the nav region:
\* the lookup finds an element, and the element is an active entry's.
C22_ActiveLinkLocated ==
    navPhase = "mounted" /\ ~navDirty /\ rafQueue # <<>>
    /\ (\E k \in 1..Len(NavView) : NavView[k].active) =>
        /\ LinkToLocate # None
        /\ LinkToLocate[1].owner = "nav"
        /\ NavView[LinkToLocate[1].k].active

\* the link's top and bottom edges and the nav region's, from the rectangles
LinkInsideAside(g) ==
    /\ g.asideTop <= g.linkTop
    /\ g.linkTop + g.linkHeight <= g.asideTop + g.asideHeight

\* twice the distance from the nav region's centre to the link's centre once
\* the region is scrolled from g.scrollTop to half of topTwice
OffCentreTwice(g, topTwice) ==
    (2 * g.linkTop - (topTwice - 2 * g.scrollTop) + g.linkHeight)
    - (2 * g.asideTop + g.asideHeight)

\* C23: when the frame callback has located the active link: if the link's top
\* and bottom both lie within the nav region no scroll is requested; otherwise
\* exactly one scroll is requested, to scrollTop + (link.top - aside.top)
\* - aside.height / 2 + link.height / 2, the offset at which the link's
\* vertical centre is at the centre of the region.
C23_ScrollCentresHiddenLink ==
    [][\A g \in Geometries :
          RafFrameWith(g) /\ FirstAside # None /\ LinkToLocate # None =>
              IF LinkInsideAside(g)
              THEN asideScroll' = asideScroll
              ELSE /\ Len(asideScroll') = Len(asideScroll) + 1
                   /\ SubSeq(asideScroll', 1, Len(asideScroll)) = asideScroll
                   /\ LET request == asideScroll'[Len(asideScroll')]
                      IN /\ request.topTwice =
                               2 * g.scrollTop + 2 * (g.linkTop - g.asideTop)
                               - g.asideHeight + g.linkHeight
                         /\ OffCentreTwice(g, request.topTwice) = 0
                         /\ request.link = LinkToLocate[1]]_vars

\* C23, its case: the active link was below the nav region's bottom edge, the
\* region of odd height was scrolled, and one scroll was requested.
C23_Witness ==
    /\ navLast.ev = "frame" /\ Len(asideScroll) = 1
    /\ asideScroll[1].geometry.linkTop + asideScroll[1].geometry.linkHeight
          > asideScroll[1].geometry.asideTop + asideScroll[1].geometry.asideHeight
    /\ asideScroll[1].geometry.asideHeight = 601 /\ asideScroll[1].geometry.scrollTop = 250
    /\ asideScroll[1].topTwice = 2 * 250 + 2 * (660 - 94) - 601 + 36

-----------------------------------------------------------------------------
(* Properties of the teardown of ArticleToc, under SpecToc *)

\* the headings below the element with the current container id
CurrentHeadings ==
    LET article == GetElementById(dom, articleId)
    IN IF article = None THEN {} ELSE Range(QueryHeadings(dom, article[1]))

\* C24: when the effect runs again for another container id, or the component
\* is torn down, every heading registered with the watcher is unregistered:
\* afterwards only headings of the current container are observed (none after
\* teardown or when the container is missing), and activeId changes only by a
\* notification about a heading observed at that moment.
C24_TeardownUnobserves ==
    /\ [](/\ tocPhase = "unmounted" => observed = {}
          /\ tocPhase = "mounted" /\ ~tocEffect => observed = CurrentHeadings)
    /\ [][activeId' # activeId =>
              /\ tocPhase = "mounted"
              /\ \A k \in Intersecting(tocLast'.batch) :
                    tocLast'.batch[k].target \in observed]_vars

\* C24, its case: a heading of the container "other" had been notified, the
\* container id changed and the effect ran again; the headings observed are
\* those of the new container only.
C24_Witness ==
    /\ tocPhase = "mounted" /\ tocLast.ev = "build" /\ tocLast.built = Some(TabiArticleId)
    /\ activeId = ExplicitArticle[1].id
    /\ observed # {} /\ \A ref \in observed : ref.c = 1

-----------------------------------------------------------------------------
(* Properties of the teardown of SideNav and of its key listener, under SpecNav *)

\* C25: after SideNav is unmounted its media-query listener and its keydown
\* listener are unregistered, and no later breakpoint change or key press
\* changes isOpen.
C25_UnmountUnregisters ==
    /\ [](navPhase = "unmounted" => ~mqListener /\ keyListeners = <<>>)
    /\ [][navPhase = "unmounted" => isOpen' = isOpen /\ navDirty' = navDirty]_vars

\* C25, its case: the drawer was OPEN when SideNav was unmounted, Escape was
\* pressed afterwards and isOpen is what it was.
C25_Witness ==
    /\ navPhase = "unmounted" /\ navLast.ev = "Escape" /\ navLast.open /\ isOpen

\* C26: the measurement deferred to the next frame never runs, and requests no
\* scroll, after SideNav has been torn down: an unmount between the scheduling
\* and the frame cancels the callback.
C26_NoFrameAfterUnmount ==
    [][navPhase = "unmounted" => rafQueue' = rafQueue /\ asideScroll' = asideScroll]_vars

\* C27: between mount and unmount exactly one keydown listener of SideNav is
\* registered, and the isOpen it tests is the isOpen of the latest committed
\* render; a change of isOpen removes the previous listener before the new
\* one is added.
C27_OneCurrentKeyListener ==
    /\ navPhase = "mounted" /\ mqListener =>
          Len(keyListeners) = 1 /\ keyListeners[1] = viewOpen
    /\ Len(keyListeners) <= 1

-----------------------------------------------------------------------------
(* Properties of activeId's life and of the entries' targets, under SpecToc *)

\* C28: once activeId has been set it is never cleared: a notification with
\* isIntersecting = false leaves it unchanged, and it changes only to the id of
\* a heading that entered the region, so the last heading that entered stays
\* active until another one enters.
C28_ActiveNeverCleared ==
    [][/\ tocLast'.ev = "batch" /\ tocLast'.prev = activeId
             /\ Intersecting(tocLast'.batch) = {} => activeId' = activeId
       /\ activeId' # activeId =>
             /\ tocLast'.ev = "batch"
             /\ \E k \in Intersecting(tocLast'.batch) :
                   ElementId(dom, tocLast'.batch[k].target) = activeId']_vars

\* C28, its case: the active heading was notified as no longer intersecting,
\* alone in its batch, and it is still the active one.
C28_Witness ==
    /\ tocLast.ev = "batch" /\ Len(tocLast.batch) = 1
    /\ ~tocLast.batch[1].isIntersecting
    /\ activeId # EmptyStr /\ ElementId(dom, tocLast.batch[1].target) = activeId

\* C29: before any intersection notification has been delivered no rendered
\* entry is marked active, for every article, one with a heading whose text
\* slugifies to the empty string included: whatever happens first after the
\* first render, short of a notification, leaves no entry marked active.
C29_NoneActiveBeforeNotification ==
    [][tocLast.ev = "init" /\ tocLast'.ev # "batch" =>
          \A k \in 1..Len(RenderedEntries') : ~RenderedEntries'[k].active]_vars

\* the headings of the current container, in document order: entry k of an
\* outline built from it was built from heading k
HeadingOfEntry(k) == QueryHeadings(dom, GetElementById(dom, articleId)[1])[k]

\* C30: a click on the entry built from heading h requests the scroll to h
\* itself, for every outline, also when two headings have the same id.
C30_ClickScrollsToOwnHeading ==
    [][\A k \in 1..Len(tocItems) :
          /\ ClickEntry(k) /\ TargetOf(k) # None
          /\ ~tocEffect /\ GetElementById(dom, articleId) # None
          => pageScroll' = Some(HeadingOfEntry(k))]_vars

====
